---- MODULE Spec2Model ----
(***************************************************************************)
(* A model of geteltorito.py, the El Torito boot-image extractor.          *)
(*                                                                         *)
(* The source image is described by the fields the program looks at (the   *)
(* record img) and by its length in bytes.  A buffer returned by           *)
(* get_sector is the byte range of the source it was read from: the sector *)
(* it starts at, the number of 512-byte units asked for and the number of  *)
(* bytes actually obtained.  The contents of a buffer are the contents of  *)
(* the source at that range, so a buffer that is written to the output     *)
(* unchanged is identified by its range.                                   *)
(*                                                                         *)
(* 32-bit quantities are kept as a pair (hi, lo) of 16-bit halves, the     *)
(* value being hi * 65536 + lo, because Python integers are unbounded and  *)
(* a sum of two 32-bit fields can exceed 2^32 - 1.                         *)
(*                                                                         *)
(* Spec is a run of main() from its first line.  The struct format of      *)
(* line 123 is not a valid format, so no run of main() gets past that      *)
(* line.  SpecLocator is the block of main() that follows the test of the  *)
(* boot indicator (lines 133-181) taken on its own, started from the       *)
(* values an Initial/Default Entry can hold.  SpecAll is the two together. *)
(* The f-string of line 107 is accepted from Python 3.12 on.               *)
(***************************************************************************)
EXTENDS Integers, Sequences, FiniteSets, TLC

VARIABLES
    img,          \* the source image: its length and the fields main() decodes
    out_name,     \* args.output_filename is set (-o was given)
    pc,           \* position of main()
    exc,          \* the exception in flight, "none" when there is none
    image_file,   \* state of the source handle
    src_opens,    \* number of times the source was opened
    src_reads_closed, \* a read was issued on a source handle that is not open
    out_file,     \* state of the destination handle
    out_opens,    \* number of times the destination was opened
    sector,       \* local: the buffer last returned for sector 17 / the catalog
    boot_p,       \* local: pointer to the boot catalog
    media,        \* local: media type of the Initial/Default Entry
    s_count,      \* local: declared sector count
    img_start,    \* local: start sector of the boot image
    mbr,          \* local: buffer read for the MBR
    count,        \* local: media-derived number of sectors
    cnt,          \* local: resolved number of sectors
    image,        \* local: the boot image buffer
    written,      \* the buffer written to the destination
    reads,        \* the calls of get_sector made so far, in order
    env_failed,   \* the environment failed an operation (open, read, write)
    outcome,      \* the exit point that ended the run
    exit_status   \* process exit status, -1 while running

vars == << img, out_name, pc, exc, image_file, src_opens, src_reads_closed,
           out_file, out_opens, sector, boot_p, media, s_count, img_start,
           mbr, count, cnt, image, written, reads, env_failed, outcome,
           exit_status >>

-----------------------------------------------------------------------------
(* Program constants *)

V_SEC_SIZE == 512

SEC_SIZE == 2048

\* Length of the source, in 2048-byte sectors, of an image that is not truncated.
MaxSrcSectors == 40

-----------------------------------------------------------------------------
(* Wide (unbounded) non-negative integers as pairs of 16-bit halves *)

W(h, l) == [hi |-> h, lo |-> l]

WOf(n) == W(n \div 65536, n % 65536)

WZero == W(0, 0)

WUnset == W(-1, -1)

WIsZero(a) == a.hi = 0 /\ a.lo = 0

\* struct.unpack "<I": four bytes, least significant first.
LE32(b) == W(b[3] + 256 * b[4], b[1] + 256 * b[2])

\* struct.unpack "<H": two bytes, least significant first.
LE16(b) == b[1] + 256 * b[2]

\* The sum reduced to 32 bits.
WAddMod32(a, b) ==
    W((a.hi + b.hi + ((a.lo + b.lo) \div 65536)) % 65536, (a.lo + b.lo) % 65536)

\* Python's "+" on two unpacked 32-bit values: a plain integer sum.
WAdd(a, b) ==
    W(a.hi + b.hi + ((a.lo + b.lo) \div 65536), (a.lo + b.lo) % 65536)

-----------------------------------------------------------------------------
(* Byte strings *)

Nuls(n) == [i \in 1..n |-> 0]

Pad(s, n) == s \o Nuls(n - Len(s))

\* "CD001"
CD001 == << 67, 68, 48, 48, 49 >>

\* "EL TORITO SPECIFICATION"
EL_TORITO == << 69, 76, 32, 84, 79, 82, 73, 84, 79, 32,
                83, 80, 69, 67, 73, 70, 73, 67, 65, 84, 73, 79, 78 >>

RECURSIVE LStrip(_)
LStrip(s) == IF s # << >> /\ Head(s) = 0 THEN LStrip(Tail(s)) ELSE s

RECURSIVE RStrip(_)
RStrip(s) ==
    IF s # << >> /\ s[Len(s)] = 0 THEN RStrip(SubSeq(s, 1, Len(s) - 1)) ELSE s

\* bytes.strip(b"\0"): NUL bytes are removed at both ends.
Strip(s) == LStrip(RStrip(s))

\* bytes.decode("ascii") raises UnicodeDecodeError on a byte above 127.
IsAscii(s) == \A i \in 1..Len(s) : s[i] < 128

-----------------------------------------------------------------------------
(* get_sector *)

NoBuf == [st |-> "unset", sec |-> WUnset, cnt |-> WUnset, len |-> -1]

NoneBuf == [st |-> "none", sec |-> WUnset, cnt |-> WUnset, len |-> -1]

Min(a, b) == IF a < b THEN a ELSE b

\* Bytes of the source at and after sector sec_num.  A source is shorter than
\* 65536 sectors, so a sector number with a high half is past its end.
Avail(sec_num) ==
    IF sec_num.hi > 0 \/ sec_num.lo * SEC_SIZE >= img.len
    THEN 0
    ELSE img.len - sec_num.lo * SEC_SIZE

\* file.read(n) returns the bytes there are, up to n, and no error at the end
\* of the file.  A count with a high half asks for at least 2^25 bytes,
\* more than a source holds.
ReadLen(sec_num, sec_count) ==
    IF sec_count.hi > 0
    THEN Avail(sec_num)
    ELSE Min(V_SEC_SIZE * sec_count.lo, Avail(sec_num))

get_sector(sec_num, sec_count, ioerror) ==
    IF ioerror
    THEN NoneBuf
    ELSE [st |-> "bytes", sec |-> sec_num, cnt |-> sec_count,
          len |-> ReadLen(sec_num, sec_count)]

\* Python truth value of a buffer: None and b"" are false.
Truthy(buf) == buf.st = "bytes" /\ buf.len > 0

\* The buffer holds every byte that was asked for.
Complete(buf) ==
    buf.st = "bytes" /\ buf.cnt.hi = 0 /\ buf.len = V_SEC_SIZE * buf.cnt.lo

-----------------------------------------------------------------------------
(* Source images *)

Tags ==
    { Pad(EL_TORITO, 32),
      Pad(<< 0, 0 >> \o EL_TORITO, 32),
      Pad([EL_TORITO EXCEPT ![23] = 77], 32),
      Pad([EL_TORITO EXCEPT ![4] = 197], 32),
      Nuls(32) }

Idents == { CD001, [CD001 EXCEPT ![5] = 50], [CD001 EXCEPT ![1] = 200] }

CatalogSector == 20

ImageSector == 25

\* Sources cut inside sector 17, inside the catalog sector or inside the boot
\* image, or not cut at all.
MainImages ==
    [ len    : { 17 * SEC_SIZE, 17 * SEC_SIZE + 50, 17 * SEC_SIZE + 100,
                 CatalogSector * SEC_SIZE + 20, CatalogSector * SEC_SIZE + 40,
                 ImageSector * SEC_SIZE + 5000, MaxSrcSectors * SEC_SIZE },
      ident  : Idents,
      tag    : Tags,
      bootp  : { << CatalogSector, 0, 0, 0 >>, << CatalogSector, 0, 0, 1 >> },
      header : { 1, 2 },
      five   : { 85, 0 },
      aa     : { 170, 85 },
      boot   : { 136, 0 },
      media  : { 0, 4 },
      scount : { << 10, 0 >> },
      start  : { << ImageSector, 0, 0, 0 >> },
      first  : { << 0, 8, 0, 0 >> },
      size   : { << 0, 16, 0, 0 >> } ]

-----------------------------------------------------------------------------
(* Initial state of a run of main() *)

Init ==
    /\ img \in MainImages
    /\ out_name \in BOOLEAN
    /\ pc = "access"
    /\ exc = "none"
    /\ image_file = "unopened"
    /\ src_opens = 0
    /\ src_reads_closed = FALSE
    /\ out_file = "unopened"
    /\ out_opens = 0
    /\ sector = NoBuf
    /\ boot_p = WUnset
    /\ media = -1
    /\ s_count = -1
    /\ img_start = WUnset
    /\ mbr = NoBuf
    /\ count = WUnset
    /\ cnt = WUnset
    /\ image = NoBuf
    /\ written = NoBuf
    /\ reads = << >>
    /\ env_failed = FALSE
    /\ outcome = "none"
    /\ exit_status = -1

locals == << sector, boot_p, media, s_count, img_start, mbr, count, cnt, image >>

handles == << image_file, src_opens, src_reads_closed, out_file, out_opens >>

\* An exception (SystemExit included) leaves the with-block of the source.
Raise(kind, label) ==
    /\ exc' = kind
    /\ outcome' = label
    /\ pc' = "leave_with"

RaiseUnchanged(kind, label) ==
    /\ Raise(kind, label)
    /\ UNCHANGED << img, out_name, handles, locals, written, reads, env_failed, exit_status >>

\* One call of get_sector on the source handle.
LogRead(stage, buf) ==
    /\ reads' = Append(reads, [stage |-> stage, ok |-> Truthy(buf)])
    /\ src_reads_closed' = (src_reads_closed \/ image_file # "open")
    /\ env_failed' = (env_failed \/ buf.st = "none")

-----------------------------------------------------------------------------
(* main(), lines 62-131 *)

\* os.access(image_file_path, os.R_OK)
CheckAccess ==
    /\ pc = "access"
    /\ \E readable \in BOOLEAN :
          IF readable
          THEN /\ pc' = "open"
               /\ UNCHANGED << outcome, exit_status, env_failed >>
          ELSE /\ pc' = "done"
               /\ outcome' = "CannotRead"
               /\ exit_status' = 1
               /\ env_failed' = TRUE
    /\ UNCHANGED << img, out_name, exc, handles, locals, written, reads >>

\* with open(image_file_path, "rb") as image_file
OpenImage ==
    /\ pc = "open"
    /\ \E result \in { "ok", "FileNotFoundError", "Exception" } :
          IF result = "ok"
          THEN /\ image_file' = "open"
               /\ src_opens' = src_opens + 1
               /\ pc' = "read17"
               /\ UNCHANGED << exc, outcome, env_failed >>
          ELSE /\ env_failed' = TRUE
               /\ exc' = result
               /\ outcome' = IF result = "Exception" THEN "Exception"
                                                     ELSE "NotFound"
               /\ pc' = "handlers"
               /\ UNCHANGED << image_file, src_opens >>
    /\ UNCHANGED << img, out_name, src_reads_closed, out_file, out_opens,
                    locals, written, reads, exit_status >>

\* sector = get_sector(image_file, 17, 1); if not sector: sys.exit(1)
ReadSector17 ==
    /\ pc = "read17"
    /\ \E ioerror \in BOOLEAN :
          LET buf == get_sector(WOf(17), WOf(1), ioerror) IN
          /\ sector' = buf
          /\ LogRead("sector17", buf)
          /\ IF Truthy(buf)
             THEN pc' = "parse_vd" /\ UNCHANGED << exc, outcome >>
             ELSE Raise("SystemExit", "ReadError")
    /\ UNCHANGED << img, out_name, image_file, src_opens, out_file, out_opens,
                    boot_p, media, s_count, img_start, mbr, count, cnt, image,
                    written, exit_status >>

\* The test of line 82 on the decoded identifier and boot-system tag.
Accepts(ident, tag) == ident = CD001 /\ Strip(tag) = EL_TORITO

\* struct.unpack("<B5sB32s32sI", sector[:75]), the two decodes and the test
ParseVolumeDescriptor ==
    /\ pc = "parse_vd"
    /\ IF sector.len < 75
       THEN RaiseUnchanged("Exception", "Exception")
       ELSE IF ~IsAscii(img.ident) \/ ~IsAscii(Strip(img.tag))
       THEN RaiseUnchanged("Exception", "Exception")
       ELSE IF ~Accepts(img.ident, img.tag)
       THEN RaiseUnchanged("SystemExit", "NotBootable")
       ELSE /\ boot_p' = LE32(img.bootp)
            /\ pc' = "read_catalog"
            /\ UNCHANGED << img, out_name, exc, handles, sector, media,
                            s_count, img_start, mbr, count, cnt, image,
                            written, reads, env_failed, outcome, exit_status >>

\* sector = get_sector(image_file, boot_p, 1); if not sector: sys.exit(1)
ReadCatalog ==
    /\ pc = "read_catalog"
    /\ \E ioerror \in BOOLEAN :
          LET buf == get_sector(boot_p, WOf(1), ioerror) IN
          /\ sector' = buf
          /\ LogRead("catalog", buf)
          /\ IF Truthy(buf)
             THEN pc' = "parse_validation" /\ UNCHANGED << exc, outcome >>
             ELSE Raise("SystemExit", "ReadError")
    /\ UNCHANGED << img, out_name, image_file, src_opens, out_file, out_opens,
                    boot_p, media, s_count, img_start, mbr, count, cnt, image,
                    written, exit_status >>

\* The test of line 102 passes.
ValidEntryNoSig2(header, five, aa) == header = 1 /\ five = 85

ValidEntry(header, five, aa) == header = 1 /\ five = 85 /\ aa = 170

\* struct.unpack("<BBH24sHBB", sector[:32]) and the test of the markers
ParseValidationEntry ==
    /\ pc = "parse_validation"
    /\ IF sector.len < 32
       THEN RaiseUnchanged("Exception", "Exception")
       ELSE IF ~ValidEntry(img.header, img.five, img.aa)
       THEN RaiseUnchanged("SystemExit", "InvalidValidationEntry")
       ELSE /\ pc' = "parse_initial"
            /\ UNCHANGED << img, out_name, exc, handles, locals, written,
                            reads, env_failed, outcome, exit_status >>

\* struct.unpack("<BBHBBH_I_B", initial_entry): "_" is not a format
\* character, so the call raises struct.error ("bad char in struct format")
\* whatever the 32 bytes are; the test of the boot indicator is not reached.
UnpackInitialEntry(entry_len) == FALSE

ParseInitialEntry ==
    /\ pc = "parse_initial"
    /\ LET entry_len == Min(sector.len, 64) - 32 IN
       IF ~UnpackInitialEntry(entry_len)
       THEN RaiseUnchanged("Exception", "Exception")
       ELSE IF img.boot # 136
       THEN RaiseUnchanged("SystemExit", "NotBootable")
       ELSE /\ media' = img.media
            /\ s_count' = LE16(img.scount)
            /\ img_start' = LE32(img.start)
            /\ pc' = "select_media"
            /\ UNCHANGED << img, out_name, exc, handles, sector, boot_p, mbr,
                            count, cnt, image, written, reads, env_failed, outcome,
                            exit_status >>

-----------------------------------------------------------------------------
(* main(), lines 133-181: the size and the read of the boot image *)

\* Lines 134-145: the fixed geometry of the floppy emulations.
MediaCountSwapped(m) ==
    IF m = 1 THEN WOf((1440 * 1024) \div V_SEC_SIZE)
    ELSE IF m = 2 THEN WOf((1200 * 1024) \div V_SEC_SIZE)
    ELSE IF m = 3 THEN WOf((2880 * 1024) \div V_SEC_SIZE)
    ELSE WZero

MediaCount(m) ==
    IF m = 1 THEN WOf((1200 * 1024) \div V_SEC_SIZE)
    ELSE IF m = 2 THEN WOf((1440 * 1024) \div V_SEC_SIZE)
    ELSE IF m = 3 THEN WOf((2880 * 1024) \div V_SEC_SIZE)
    ELSE WZero

\* Line 152: count = first_sector + partition_size
PartitionCountMod32(first_sector, partition_size) ==
    WAddMod32(first_sector, partition_size)

PartitionCount(first_sector, partition_size) ==
    WAdd(first_sector, partition_size)

\* Line 154: cnt = s_count if count == 0 else count
ResolveCnt(declared, derived) ==
    IF WIsZero(derived) THEN WOf(declared) ELSE derived

\* The if/elif chain on media, up to the call of get_sector for the MBR
SelectMedia ==
    /\ pc = "select_media"
    /\ count' = MediaCount(media)
    /\ pc' = IF media = 4 THEN "read_mbr" ELSE "resolve"
    /\ UNCHANGED << img, out_name, exc, handles, sector, boot_p, media,
                    s_count, img_start, mbr, cnt, image, written, reads,
                    env_failed, outcome, exit_status >>

\* mbr = get_sector(image_file, img_start, 1)
ReadMbr ==
    /\ pc = "read_mbr"
    /\ \E ioerror \in BOOLEAN :
          LET buf == get_sector(img_start, WOf(1), ioerror) IN
          /\ mbr' = buf
          /\ LogRead("mbr", buf)
    /\ pc' = "parse_mbr"
    /\ UNCHANGED << img, out_name, exc, image_file, src_opens, out_file,
                    out_opens, sector, boot_p, media, s_count, img_start,
                    count, cnt, image, written, outcome, exit_status >>

\* if mbr: struct.unpack("<8sII", mbr[446:462]); count = first + size
ParsePartition ==
    /\ pc = "parse_mbr"
    /\ IF ~Truthy(mbr)
       THEN /\ pc' = "resolve"
            /\ UNCHANGED << img, out_name, exc, handles, locals, written,
                            reads, env_failed, outcome, exit_status >>
       ELSE IF mbr.len < 462
       THEN RaiseUnchanged("Exception", "Exception")
       ELSE /\ count' = PartitionCount(LE32(img.first), LE32(img.size))
            /\ pc' = "resolve"
            /\ UNCHANGED << img, out_name, exc, handles, sector, boot_p,
                            media, s_count, img_start, mbr, cnt, image,
                            written, reads, env_failed, outcome, exit_status >>

\* cnt = s_count if count == 0 else count
ResolveCount ==
    /\ pc = "resolve"
    /\ cnt' = ResolveCnt(s_count, count)
    /\ pc' = "read_image"
    /\ UNCHANGED << img, out_name, exc, handles, sector, boot_p, media,
                    s_count, img_start, mbr, count, image, written, reads,
                    env_failed, outcome, exit_status >>

\* image = get_sector(image_file, img_start, cnt)
ReadImage ==
    /\ pc = "read_image"
    /\ \E ioerror \in BOOLEAN :
          LET buf == get_sector(img_start, cnt, ioerror) IN
          /\ image' = buf
          /\ LogRead("image", buf)
    /\ pc' = "emit"
    /\ UNCHANGED << img, out_name, exc, image_file, src_opens, out_file,
                    out_opens, sector, boot_p, media, s_count, img_start,
                    mbr, count, cnt, written, outcome, exit_status >>

\* if image: ... else: sys.stdout.buffer.write(image)
\* An image that is None or empty skips the whole block.
Emit ==
    /\ pc = "emit"
    /\ IF ~Truthy(image)
       THEN /\ pc' = "leave_with"
            /\ UNCHANGED << exc, written, env_failed, outcome >>
       ELSE IF out_name
       THEN /\ pc' = "open_out"
            /\ UNCHANGED << exc, written, env_failed, outcome >>
       ELSE \E ok \in BOOLEAN :
               IF ok
               THEN /\ written' = image
                    /\ pc' = "leave_with"
                    /\ UNCHANGED << exc, env_failed, outcome >>
               ELSE /\ env_failed' = TRUE
                    /\ Raise("Exception", "Exception")
                    /\ UNCHANGED written
    /\ UNCHANGED << img, out_name, handles, locals, reads, exit_status >>

\* with open(args.output_filename, "wb") as out_file
OpenOutput ==
    /\ pc = "open_out"
    /\ \E ok \in BOOLEAN :
          IF ok
          THEN /\ out_file' = "open"
               /\ out_opens' = out_opens + 1
               /\ pc' = "write_out"
               /\ UNCHANGED << exc, env_failed, outcome >>
          ELSE /\ env_failed' = TRUE
               /\ Raise("SystemExit", "WriteError")
               /\ UNCHANGED << out_file, out_opens >>
    /\ UNCHANGED << img, out_name, image_file, src_opens, src_reads_closed,
                    locals, written, reads, exit_status >>

\* out_file.write(image)
WriteOutput ==
    /\ pc = "write_out"
    /\ pc' = "close_out"
    /\ \E ok \in BOOLEAN :
          IF ok
          THEN /\ written' = image
               /\ UNCHANGED << exc, env_failed >>
          ELSE /\ exc' = "IOError"
               /\ env_failed' = TRUE
               /\ UNCHANGED written
    /\ UNCHANGED << img, out_name, handles, locals, reads, outcome,
                    exit_status >>

\* __exit__ of the with-block of out_file, then "except IOError: sys.exit(1)"
CloseOutput ==
    /\ pc = "close_out"
    /\ out_file' = "closed"
    /\ IF exc = "IOError"
       THEN Raise("SystemExit", "WriteError")
       ELSE pc' = "leave_with" /\ UNCHANGED << exc, outcome >>
    /\ UNCHANGED << img, out_name, image_file, src_opens, src_reads_closed,
                    out_opens, locals, written, reads, env_failed,
                    exit_status >>

-----------------------------------------------------------------------------
(* Leaving the with-block and the handlers of lines 183-188 *)

\* __exit__ of "with open(image_file_path, 'rb') as image_file"
LeaveWithNoClose ==
    /\ pc = "leave_with"
    /\ pc' = "handlers"
    /\ UNCHANGED image_file
    /\ UNCHANGED << img, out_name, exc, src_opens, src_reads_closed, out_file,
                    out_opens, locals, written, reads, env_failed, outcome, exit_status >>

LeaveWith ==
    /\ pc = "leave_with"
    /\ pc' = "handlers"
    /\ image_file' = "closed"
    /\ UNCHANGED << img, out_name, exc, src_opens, src_reads_closed, out_file,
                    out_opens, locals, written, reads, env_failed, outcome, exit_status >>

\* except FileNotFoundError / except Exception / SystemExit / normal return
Terminate ==
    /\ pc = "handlers"
    /\ pc' = "done"
    /\ exit_status' = IF exc = "none" THEN 0 ELSE 1
    /\ outcome' = IF exc = "none" THEN "Success" ELSE outcome
    /\ UNCHANGED << img, out_name, exc, handles, locals, written, reads, env_failed >>

Next ==
    \/ CheckAccess
    \/ OpenImage
    \/ ReadSector17
    \/ ParseVolumeDescriptor
    \/ ReadCatalog
    \/ ParseValidationEntry
    \/ ParseInitialEntry
    \/ LeaveWith
    \/ Terminate

Spec == Init /\ [][Next]_vars

-----------------------------------------------------------------------------
(* Lines 133-181 on their own *)

\* Values of the Initial/Default Entry and of the sector it points to.
LocatorImages ==
    [ len    : { CatalogSector * SEC_SIZE + 64, ImageSector * SEC_SIZE + 300,
                 ImageSector * SEC_SIZE + 470, ImageSector * SEC_SIZE + 5000,
                 MaxSrcSectors * SEC_SIZE },
      ident  : { CD001 },
      tag    : { Pad(EL_TORITO, 32) },
      bootp  : { << CatalogSector, 0, 0, 0 >> },
      header : { 1 },
      five   : { 85 },
      aa     : { 170 },
      boot   : { 136 },
      media  : { 0, 1, 2, 3, 4, 5, 255 },
      scount : { << 0, 0 >>, << 10, 0 >>, << 255, 255 >> },
      start  : { << ImageSector, 0, 0, 0 >>, << ImageSector, 0, 1, 0 >> },
      first  : { << 0, 0, 0, 0 >>, << 0, 8, 0, 0 >>, << 255, 255, 255, 255 >> },
      size   : { << 0, 0, 0, 0 >>, << 0, 16, 0, 0 >>, << 1, 0, 0, 0 >> } ]

\* The state in which line 133 is entered: the source is open, sector 17 and
\* the catalog sector have been read and accepted, and media, s_count and
\* img_start hold the fields of the Initial/Default Entry.
InitLocator ==
    /\ img \in LocatorImages
    /\ out_name \in BOOLEAN
    /\ pc = "select_media"
    /\ exc = "none"
    /\ image_file = "open"
    /\ src_opens = 1
    /\ src_reads_closed = FALSE
    /\ out_file = "unopened"
    /\ out_opens = 0
    /\ sector = get_sector(LE32(img.bootp), WOf(1), FALSE)
    /\ boot_p = LE32(img.bootp)
    /\ media = img.media
    /\ s_count = LE16(img.scount)
    /\ img_start = LE32(img.start)
    /\ mbr = NoBuf
    /\ count = WUnset
    /\ cnt = WUnset
    /\ image = NoBuf
    /\ written = NoBuf
    /\ reads = << [stage |-> "sector17", ok |-> TRUE],
                  [stage |-> "catalog", ok |-> TRUE] >>
    /\ env_failed = FALSE
    /\ outcome = "none"
    /\ exit_status = -1

NextLocator ==
    \/ SelectMedia
    \/ ReadMbr
    \/ ParsePartition
    \/ ResolveCount
    \/ ReadImage
    \/ Emit
    \/ OpenOutput
    \/ WriteOutput
    \/ CloseOutput
    \/ LeaveWith
    \/ Terminate

SpecLocator == InitLocator /\ [][NextLocator]_vars

\* Every run of main() and every run of the block of lines 133-181.
NextAll ==
    \/ Next
    \/ SelectMedia
    \/ ReadMbr
    \/ ParsePartition
    \/ ResolveCount
    \/ ReadImage
    \/ Emit
    \/ OpenOutput
    \/ WriteOutput
    \/ CloseOutput

SpecAll == (Init \/ InitLocator) /\ [][NextAll]_vars

-----------------------------------------------------------------------------
(* Properties *)

StageRead(stage) == \E i \in 1..Len(reads) : reads[i].stage = stage

StageReadOk(stage) ==
    \E i \in 1..Len(reads) : reads[i].stage = stage /\ reads[i].ok

\* The number of sectors and the byte range the size policy of section 4.4
\* gives for the image.
ExpectedCnt ==
    LET f == LE32(img.first)
        z == LE32(img.size)
        derived == CASE img.media = 1 -> W(0, 2400)
                     [] img.media = 2 -> W(0, 2880)
                     [] img.media = 3 -> W(0, 5760)
                     [] img.media = 4 ->
                          W(f.hi + z.hi + ((f.lo + z.lo) \div 65536),
                            (f.lo + z.lo) % 65536)
                     [] OTHER -> W(0, 0)
    IN  IF derived = W(0, 0) THEN W(0, LE16(img.scount)) ELSE derived

ExpectedImage ==
    [st |-> "bytes", sec |-> LE32(img.start), cnt |-> ExpectedCnt,
     len |-> 512 * ExpectedCnt.lo]

WellFormed ==
    /\ img.ident = CD001
    /\ img.tag = Pad(EL_TORITO, 32)
    /\ img.header = 1 /\ img.five = 85 /\ img.aa = 170
    /\ img.boot = 136
    /\ Avail(WOf(17)) >= 512
    /\ Avail(LE32(img.bootp)) >= 512
    /\ ExpectedCnt.hi = 0 /\ ExpectedCnt.lo > 0
    /\ Avail(LE32(img.start)) >= 512 * ExpectedCnt.lo
    /\ img.media = 4 => Avail(LE32(img.start)) >= 512

\* C1: a run on a well-formed image that the environment does not disturb
\* ends in success, and the bytes written are exactly the
\* resolved_sector_count * 512 bytes of the source at start_sector * 2048.
C1_WellFormedImageDecodes ==
    (pc = "done" /\ WellFormed /\ ~env_failed)
        => /\ outcome = "Success"
           /\ exit_status = 0
           /\ written = ExpectedImage

\* C2: no buffer shorter than the 512 * sector_count bytes asked for is
\* returned by get_sector, kept for parsing or written, and a run in which a
\* read fell short or failed ends with the ReadError outcome.
C2_TruncatedReadIsReadError ==
    /\ \A b \in { sector, mbr, image, written } :
          b.st = "bytes" => Complete(b)
    /\ (pc = "done" /\ \E i \in 1..Len(reads) : ~reads[i].ok)
          => outcome = "ReadError"

C4_VolumeDescriptorAcceptance ==
    (StageReadOk("sector17") /\ Avail(WOf(17)) >= 75 /\ pc # "parse_vd")
        => IF img.ident = CD001 /\ RStrip(img.tag) = EL_TORITO
           THEN boot_p = W(img.bootp[3] + 256 * img.bootp[4],
                           img.bootp[1] + 256 * img.bootp[2])
           ELSE boot_p = WUnset /\ outcome = "NotBootable"

\* The catalog sector has been read and its first 32 bytes tested.
ValidationTested ==
    /\ StageReadOk("catalog")
    /\ sector.st = "bytes" /\ sector.len >= 32
    /\ pc \notin { "parse_validation" }

\* C5: a catalog sector whose bytes [0:32] have header_id # 1 or sig1 # 0x55
\* or sig2 # 0xAA ends the run with InvalidValidationEntry, whatever the
\* other fields of the sector hold.
C5_InvalidValidationEntry ==
    (ValidationTested /\ (img.header # 1 \/ img.five # 85 \/ img.aa # 170))
        => (outcome = "InvalidValidationEntry" /\ ~StageRead("mbr")
            /\ ~StageRead("image") /\ written = NoBuf)

C5_Witness ==
    /\ pc = "done"
    /\ outcome = "InvalidValidationEntry"
    /\ exit_status = 1
    /\ img.header = 1 /\ img.five = 85 /\ img.aa # 170
    /\ img.boot # 136

\* C6: with a valid Validation Entry, a boot indicator other than 0x88 ends
\* the run with NotBootable, and neither the MBR nor the image is read.
C6_BootIndicatorNotBootable ==
    (/\ ValidationTested
     /\ sector.len >= 64
     /\ img.header = 1 /\ img.five = 85 /\ img.aa = 170
     /\ img.boot # 136
     /\ pc # "parse_initial")
        => (outcome = "NotBootable" /\ ~StageRead("mbr") /\ ~StageRead("image"))

\* Line 154 has been executed.
Resolved == pc \notin { "select_media", "read_mbr", "parse_mbr", "resolve" }

StageRank(stage) ==
    CASE stage = "sector17" -> 1
      [] stage = "catalog" -> 2
      [] stage = "mbr" -> 3
      [] stage = "image" -> 4

C10_HandlesScoped ==
    /\ src_opens <= 1
    /\ out_opens <= 1
    /\ ~src_reads_closed
    /\ image_file = "open" => src_opens = 1
    /\ out_file = "open" => (out_opens = 1 /\ image_file = "open")
    /\ pc = "done" => /\ image_file = IF src_opens = 1 THEN "closed"
                                                       ELSE "unopened"
                      /\ out_file = IF out_opens = 1 THEN "closed"
                                                     ELSE "unopened"

C10_Witness ==
    /\ pc = "done"
    /\ outcome = "WriteError"
    /\ image_file = "closed"
    /\ out_file = "closed"
    /\ Len(reads) >= 3

====
